---- MODULE Spec2Model ----
(***************************************************************************)
(* Model of healthcare.py: a Streamlit script that is re-executed from top *)
(* to bottom for every user interaction.  The session state              *)
(* (st.session_state) persists across script runs; a script run is         *)
(* modelled as a sequence of steps selected by pc ("top", "sidebar",       *)
(* "medform", "ctxform", "input", then the steps of                        *)
(* handle_final_response), and pc = "idle" is the page waiting for the     *)
(* next user interaction.                                                  *)
(*                                                                         *)
(* Text is a sequence.  Text a user types is a sequence of one-character   *)
(* strings; a literal of the program is written as a few multi-character   *)
(* elements, split so that every position the code inspects                *)
(* (str.startswith, the keyword search, str.lower) is a single character.  *)
(***************************************************************************)
EXTENDS Integers, Sequences, FiniteSets, TLC

\* ---------------------------------------------------------------- bounds
MaxTurns == 2       \* interactions that append are offered while the history holds fewer turns
MaxChunks == 2      \* chunks a response stream yields at most

\* ------------------------------------------------------------- constants
UpperCase == <<"A","B","C","D","E","F","G","H","I","J","K","L","M",
               "N","O","P","Q","R","S","T","U","V","W","X","Y","Z">>
LowerCase == <<"a","b","c","d","e","f","g","h","i","j","k","l","m",
               "n","o","p","q","r","s","t","u","v","w","x","y","z">>

TRIGGER_KEYWORDS ==
  << <<"s","y","m","p","t","o","m">>,
     <<"c","o","n","s","t","i","p","a","t","i","o","n">>,
     <<"p","a","i","n">>,
     <<"f","e","v","e","r">>,
     <<"h","e","a","d","a","c","h","e">>,
     <<"c","o","l","d">> >>

AGE_RANGES == << <<"0-12">>, <<"13-17">>, <<"18-45">>, <<"46-65">>, <<"65+">> >>
GENDER_OPTIONS == << <<"Male">>, <<"Female">>, <<"Prefer Not to Say">> >>

LANGUAGE_MAP ==
  [k \in {"English (Default)", "Kannada", "Hindi", "Telugu"} |->
     CASE k = "English (Default)" -> "English"
       [] k = "Kannada" -> "Kannada"
       [] k = "Hindi" -> "Hindi"
       [] k = "Telugu" -> "Telugu"]

WelcomeText ==
  <<"*Welcome!* I am your Healthcare Companion. I can provide health information in English, Kannada, Hindi, or Telugu.">>
PlaceholderText ==
  <<"*Welcome!* (Gemini not yet initialized.) Please check secrets and requirements.">>
ContextRequiredText == <<"*", "Context Required:* Please fill the form above.">>
NotInitializedText == <<"Error: Chat not initialized. Please check API key and imports.">>
FallbackSymptom == <<"G", "eneral health inquiry.">>
RequestingInfo == <<"R","e","q","u","e","s","t","i","n","g"," ","i","n","f","o">>

\* ------------------------------------------- inputs offered to the model
\* typed or spoken texts: "hi", "a Cold", "Requesting info pain"
InputTexts ==
  { <<"h","i">>,
    <<"a"," ","C","o","l","d">>,
    RequestingInfo \o <<" ","p","a","i","n">> }
\* medicine names typed into the medicine form: "" and "Dolo"
MedicineNames == { <<>>, <<"D","o","l","o">> }
\* weights entered in st.number_input("Weight (kg)", 1, 300, 70)
FormWeights == {1, 300}
FormGenders == 1..3        \* indices into GENDER_OPTIONS offered
FormAges == {1, 3, 5}       \* indices into AGE_RANGES offered
LanguageKeys == {"English (Default)", "Kannada"}
\* texts a stream chunk may carry: None/empty, or "Para"
ChunkTexts == { <<>>, <<"P","a","r","a">> }

\* -------------------------------------------------------- pure functions
\* str.lower() on one character
LowerChar(c) ==
  IF \E i \in 1..Len(UpperCase) : UpperCase[i] = c
    THEN LowerCase[CHOOSE i \in 1..Len(UpperCase) : UpperCase[i] = c]
    ELSE c

\* a case-sensitive keyword check: the text is not lowered
Lower_CaseSensitive(s) == s

\* str.lower()
Lower(s) == [i \in 1..Len(s) |-> LowerChar(s[i])]

\* k in s   (substring test)
Contains(s, k) ==
  \E i \in 1..(Len(s) - Len(k) + 1) : SubSeq(s, i, i + Len(k) - 1) = k

\* s.startswith(p)
StartsWith(s, p) == Len(s) >= Len(p) /\ SubSeq(s, 1, Len(p)) = p

\* any(k in user_input.lower() for k in TRIGGER_KEYWORDS)
HasTrigger(user_input) ==
  \E j \in 1..Len(TRIGGER_KEYWORDS) : Contains(Lower(user_input), TRIGGER_KEYWORDS[j])

\* one decimal digit as a character
Digit(d) == <<"0","1","2","3","4","5","6","7","8","9">>[d + 1]

\* str(n) of a positive integer, as the f-string formats user_weight
RECURSIVE IntToStr(_)
IntToStr(n) == IF n < 10 THEN <<Digit(n)>> ELSE Append(IntToStr(n \div 10), Digit(n % 10))

\* the medicine directive on every prompt
FinalPrompt_AlwaysMedicine(base_prompt, is_medicine_request, target_lang) ==
  base_prompt \o <<"\n\nPlease provide this information in *", target_lang, "* language.">>

\* final_prompt of handle_final_response
FinalPrompt(base_prompt, is_medicine_request, target_lang) ==
  IF is_medicine_request
    THEN base_prompt \o <<"\n\nPlease provide this information in *", target_lang, "* language.">>
    ELSE base_prompt \o <<"\n\n(Respond in ", target_lang, " language)">>

\* display_content of handle_final_response
DisplayContent(base_prompt, is_medicine_request) ==
  IF ~is_medicine_request
    THEN base_prompt
    ELSE RequestingInfo \o <<" for medicine: ">> \o base_prompt

\* med_prompt of the medicine form
MedPrompt(medicine_name) ==
  <<"P", "lease explain the general usage, purpose, and common symptoms treated by the medicine: '">>
    \o medicine_name
    \o <<"'. Provide a clear note on when it is typically used.">>

\* is this message skipped by the search of handle_context_form_submit?
IsSymptomMessage(msg) ==
  msg.role = "user" /\ ~StartsWith(msg.content, RequestingInfo)

\* original_symptom: next(... for msg in reversed(messages) if ..., "General health inquiry.")
OriginalSymptom(msgs) ==
  IF \E i \in 1..Len(msgs) : IsSymptomMessage(msgs[i])
    THEN LET last == CHOOSE i \in 1..Len(msgs) :
                       /\ IsSymptomMessage(msgs[i])
                       /\ \A j \in (i+1)..Len(msgs) : ~IsSymptomMessage(msgs[j])
         IN msgs[last].content
    ELSE FallbackSymptom

\* prompt of handle_context_form_submit
ContextPrompt(original_symptom, user_gender, user_age, user_weight) ==
  <<"O", "riginal request: ">> \o original_symptom
    \o <<"\nUser Details - Gender: ">> \o user_gender
    \o <<", Age: ">> \o user_age
    \o <<", Weight: ">> \o IntToStr(user_weight)
    \o <<"\nProvide general, educational health information based on this context.">>

\* full_response after the stream raised
StreamError(partial) == <<"An error occurred while contacting Gemini: ", "<e>">>

\* the inputs gated on the context form only
InputVisible_ContextOnly(asking, showform) == ~asking

\* if not asking_for_details and not show_prescription_form
InputVisible(asking, showform) == ~asking /\ ~showform

Msg(r, c) == [role |-> r, content |-> c]


\* the stream is requested without the test for a chat session
ChatInitialized_Always(chat) == TRUE

\* 'gemini_chat' in st.session_state, as handle_final_response tests it
ChatInitialized(chat) == chat

\* the medicine form handled without the test for a name
MedSubmitted_IgnoresName(med_submitted, medicine_name) == med_submitted

\* med_submitted and medicine_name
MedSubmitted(med_submitted, medicine_name) == med_submitted /\ medicine_name # <<>>

\* the user message is not recorded
AppendUser_Skipped(msgs, content) == msgs

\* st.session_state.messages.append({"role": "user", "content": display_content})
AppendUser(msgs, content) == Append(msgs, Msg("user", content))

\* ----------------------------------------------------------------- state
VARIABLES
  secrets_has_key,        \* "GEMINI_API_KEY" in st.secrets
  genai_importable,       \* import_module("google.genai") succeeds
  asking_for_details,     \* st.session_state.asking_for_details
  user_details,           \* st.session_state.user_details
  current_language,       \* st.session_state.current_language
  show_prescription_form, \* st.session_state.show_prescription_form
  messages,               \* st.session_state.messages
  gemini_client,          \* 'gemini_client' in st.session_state
  genai_types,            \* st.session_state has a non-None '_genai_types'
  gemini_chat,            \* 'gemini_chat' in st.session_state
  selected_lang_key,      \* value of the language selectbox
  pc,                     \* position of the script run
  event,                  \* the widget interaction that started this run
  final_prompt,           \* handle_final_response: final_prompt
  full_response,          \* handle_final_response: full_response
  hfr_ret,                \* where handle_final_response returns to
  n_chunks,               \* chunks the stream has yielded so far
  n_calls,                \* send_message_stream calls since the last interaction
  sent_prompt,            \* argument of the last send_message_stream call
  received,               \* text the stream delivered in the current call
  outcome,                \* path the current handle_final_response took
  trigger_input           \* the input that last opened the context form

vars == <<secrets_has_key, genai_importable, asking_for_details, user_details,
          current_language, show_prescription_form, messages, gemini_client,
          genai_types, gemini_chat, selected_lang_key, pc, event, final_prompt,
          full_response, hfr_ret, n_chunks, n_calls, sent_prompt, received,
          outcome, trigger_input>>

envVars == <<secrets_has_key, genai_importable>>
chatVars == <<gemini_client, genai_types, gemini_chat>>
hfrVars == <<final_prompt, full_response, hfr_ret, n_chunks>>
obsVars == <<n_calls, sent_prompt, received, outcome>>

EmptyDetails == [k \in {} |-> <<>>]

NoEvent == [kind |-> "none", text |-> <<>>, gender |-> 0, age |-> 0, weight |-> 0]

Event(k, t, g, a, w) == [kind |-> k, text |-> t, gender |-> g, age |-> a, weight |-> w]

\* session-state defaults of the first script run, before any widget exists
Init ==
  /\ secrets_has_key \in BOOLEAN
  /\ genai_importable \in BOOLEAN
  /\ asking_for_details = FALSE
  /\ user_details = EmptyDetails
  /\ current_language = "English"
  /\ show_prescription_form = FALSE
  /\ messages = <<Msg("assistant", WelcomeText)>>
  /\ gemini_client = FALSE
  /\ genai_types = FALSE
  /\ gemini_chat = FALSE
  /\ selected_lang_key = "English (Default)"
  /\ pc = "top"
  /\ event = NoEvent
  /\ final_prompt = <<>>
  /\ full_response = <<>>
  /\ hfr_ret = "none"
  /\ n_chunks = 0
  /\ n_calls = 0
  /\ sent_prompt = <<>>
  /\ received = <<>>
  /\ outcome = "none"
  /\ trigger_input = <<>>

\* ------------------------------------------------------------ operations
\* get_gemini_client(): the client it returns (FALSE for None) and what it
\* leaves in the session; client_raises: genai.Client(...) raises
GetGeminiClient(client_raises) ==
  IF gemini_client
    THEN [client |-> TRUE, stored |-> TRUE, types |-> genai_types]
  ELSE IF ~secrets_has_key
    THEN [client |-> FALSE, stored |-> FALSE, types |-> genai_types]
  ELSE IF ~genai_importable
    THEN [client |-> FALSE, stored |-> FALSE, types |-> genai_types]
  ELSE IF client_raises
    THEN [client |-> FALSE, stored |-> FALSE, types |-> genai_types]
  ELSE [client |-> TRUE, stored |-> TRUE, types |-> TRUE]

\* reset_chat(); create_raises: client.chats.create(...) raises
ResetChat ==
  \E client_raises \in BOOLEAN, create_raises \in BOOLEAN :
    LET got == GetGeminiClient(client_raises) IN
    /\ gemini_client' = got.stored
    /\ genai_types' = got.types
    /\ IF ~got.client
         THEN /\ messages' = <<Msg("assistant", PlaceholderText)>>
              /\ asking_for_details' = FALSE
              /\ user_details' = EmptyDetails
              /\ show_prescription_form' = FALSE
              /\ UNCHANGED gemini_chat
       ELSE IF ~got.types
         THEN UNCHANGED <<messages, asking_for_details, user_details,
                          show_prescription_form, gemini_chat>>
       ELSE IF create_raises
         THEN UNCHANGED <<messages, asking_for_details, user_details,
                          show_prescription_form, gemini_chat>>
       ELSE /\ gemini_chat' = TRUE
            /\ messages' = <<Msg("assistant", WelcomeText)>>
            /\ asking_for_details' = FALSE
            /\ user_details' = EmptyDetails
            /\ show_prescription_form' = FALSE

\* st.experimental_rerun(): the script starts again, no widget is triggered
Rerun ==
  /\ pc' = "top"
  /\ event' = NoEvent
  /\ final_prompt' = <<>>
  /\ full_response' = <<>>
  /\ hfr_ret' = "none"
  /\ n_chunks' = 0

\* a widget interaction starts a script run
StartRun(e) ==
  /\ pc = "idle"
  /\ pc' = "top"
  /\ event' = e
  /\ n_calls' = 0
  /\ sent_prompt' = <<>>
  /\ received' = <<>>
  /\ outcome' = "none"
  /\ UNCHANGED <<envVars, hfrVars, trigger_input, current_language>>

\* a turn is a user message and the assistant message after it
CanAppend == Len(messages) < 1 + 2 * MaxTurns

\* the language selectbox is changed
SelectLanguage ==
  \E k \in LanguageKeys :
    /\ k # selected_lang_key
    /\ StartRun(Event("language", <<>>, 0, 0, 0))
    /\ selected_lang_key' = k
    /\ UNCHANGED <<asking_for_details, user_details, show_prescription_form,
                   messages, chatVars>>

\* the "Get Medicine Info" button is clicked
ClickMedicineInfo ==
  /\ StartRun(Event("toggle", <<>>, 0, 0, 0))
  /\ UNCHANGED <<asking_for_details, user_details, show_prescription_form,
                 messages, chatVars, selected_lang_key>>

\* the "Clear Chat History" button is clicked: on_click=reset_chat runs
\* before the script
ClickClear ==
  /\ StartRun(Event("clear", <<>>, 0, 0, 0))
  /\ ResetChat
  /\ UNCHANGED selected_lang_key

\* "Get Information" of the medicine form is pressed (the form is on the page)
SubmitMedicineForm ==
  \E name \in MedicineNames :
    /\ show_prescription_form
    /\ CanAppend
    /\ StartRun(Event("med", name, 0, 0, 0))
    /\ UNCHANGED <<asking_for_details, user_details, show_prescription_form,
                   messages, chatVars, selected_lang_key>>

\* "Submit" of the context form is pressed (the form is on the page)
SubmitContextForm ==
  \E g \in FormGenders, a \in FormAges, w \in FormWeights :
    /\ asking_for_details
    /\ CanAppend
    /\ StartRun(Event("ctx", <<>>, g, a, w))
    /\ UNCHANGED <<asking_for_details, user_details, show_prescription_form,
                   messages, chatVars, selected_lang_key>>

\* a text is typed into st.chat_input or spoken (the inputs are on the page)
SubmitInput ==
  \E u \in InputTexts :
    /\ InputVisible(asking_for_details, show_prescription_form)
    /\ CanAppend
    /\ StartRun(Event("input", u, 0, 0, 0))
    /\ UNCHANGED <<asking_for_details, user_details, show_prescription_form,
                   messages, chatVars, selected_lang_key>>

\* if 'gemini_chat' not in st.session_state: reset_chat()
LazyInit ==
  /\ pc = "top"
  /\ pc' = "sidebar"
  /\ IF ~gemini_chat
       THEN ResetChat
       ELSE UNCHANGED <<messages, asking_for_details, user_details,
                        show_prescription_form, chatVars>>
  /\ UNCHANGED <<envVars, current_language, selected_lang_key, event, hfrVars,
                 obsVars, trigger_input>>

\* the sidebar: language selector and the medicine toggle
Sidebar ==
  /\ pc = "sidebar"
  /\ pc' = "medform"
  /\ current_language' = LANGUAGE_MAP[selected_lang_key]
  /\ show_prescription_form' =
       IF event.kind = "toggle" THEN ~show_prescription_form
                                ELSE show_prescription_form
  /\ UNCHANGED <<envVars, asking_for_details, user_details, messages, chatVars,
                 selected_lang_key, event, hfrVars, obsVars, trigger_input>>

\* handle_final_response, up to the append of the user message
HFRBegin(base_prompt, is_medicine_request, ret) ==
  /\ final_prompt' = FinalPrompt(base_prompt, is_medicine_request, current_language)
  /\ messages' = AppendUser(messages, DisplayContent(base_prompt, is_medicine_request))
  /\ full_response' = <<>>
  /\ hfr_ret' = ret
  /\ n_chunks' = 0
  /\ received' = <<>>
  /\ outcome' = "none"
  /\ pc' = "hfr_send"
  /\ UNCHANGED <<n_calls, sent_prompt>>

\* medicine form, submitted with a name
MedFormSubmit ==
  /\ pc = "medform"
  /\ show_prescription_form
  /\ MedSubmitted(event.kind = "med", event.text)
  /\ HFRBegin(MedPrompt(event.text), TRUE, "med_ret")
  /\ UNCHANGED <<envVars, asking_for_details, user_details, current_language,
                 show_prescription_form, chatVars, selected_lang_key, event,
                 trigger_input>>

\* medicine form not shown, not submitted, or submitted without a name
MedFormSkip ==
  /\ pc = "medform"
  /\ ~(show_prescription_form /\ MedSubmitted(event.kind = "med", event.text))
  /\ pc' = "ctxform"
  /\ UNCHANGED <<envVars, asking_for_details, user_details, current_language,
                 show_prescription_form, messages, chatVars, selected_lang_key,
                 event, hfrVars, obsVars, trigger_input>>

\* st.session_state.show_prescription_form = False; st.experimental_rerun()
MedReturn ==
  /\ pc = "med_ret"
  /\ show_prescription_form' = FALSE
  /\ Rerun
  /\ UNCHANGED <<envVars, asking_for_details, user_details, current_language,
                 messages, chatVars, selected_lang_key, obsVars, trigger_input>>

\* context form submitted: handle_context_form_submit(gender, age, weight)
CtxFormSubmit ==
  /\ pc = "ctxform"
  /\ asking_for_details
  /\ event.kind = "ctx"
  /\ LET user_gender == GENDER_OPTIONS[event.gender]
         user_age == AGE_RANGES[event.age]
         user_weight == event.weight
     IN /\ user_details' = [gender |-> user_gender, age |-> user_age,
                            weight |-> user_weight]
        /\ asking_for_details' = FALSE
        /\ HFRBegin(ContextPrompt(OriginalSymptom(messages), user_gender,
                                  user_age, user_weight),
                    FALSE, "ctx_ret")
  /\ UNCHANGED <<envVars, current_language, show_prescription_form, chatVars,
                 selected_lang_key, event, trigger_input>>

\* context form not shown or not submitted
CtxFormSkip ==
  /\ pc = "ctxform"
  /\ ~(asking_for_details /\ event.kind = "ctx")
  /\ pc' = "input"
  /\ UNCHANGED <<envVars, asking_for_details, user_details, current_language,
                 show_prescription_form, messages, chatVars, selected_lang_key,
                 event, hfrVars, obsVars, trigger_input>>

\* st.experimental_rerun() after handle_context_form_submit
CtxReturn ==
  /\ pc = "ctx_ret"
  /\ Rerun
  /\ UNCHANGED <<envVars, asking_for_details, user_details, current_language,
                 show_prescription_form, messages, chatVars, selected_lang_key,
                 obsVars, trigger_input>>

\* main input: a text with a trigger keyword (symptom flow)
InputTrigger ==
  /\ pc = "input"
  /\ InputVisible(asking_for_details, show_prescription_form)
  /\ event.kind = "input"
  /\ event.text # <<>>
  /\ HasTrigger(event.text)
  /\ messages' = Append(Append(messages, Msg("user", event.text)),
                        Msg("assistant", ContextRequiredText))
  /\ asking_for_details' = TRUE
  /\ trigger_input' = event.text
  /\ Rerun
  /\ UNCHANGED <<envVars, user_details, current_language, show_prescription_form,
                 chatVars, selected_lang_key, obsVars>>

\* main input: a text without trigger keyword (standard question flow)
InputQuestion ==
  /\ pc = "input"
  /\ InputVisible(asking_for_details, show_prescription_form)
  /\ event.kind = "input"
  /\ event.text # <<>>
  /\ ~HasTrigger(event.text)
  /\ HFRBegin(event.text, FALSE, "input_ret")
  /\ UNCHANGED <<envVars, asking_for_details, user_details, current_language,
                 show_prescription_form, chatVars, selected_lang_key, event,
                 trigger_input>>

\* main input hidden or empty: the script run ends
InputNone ==
  /\ pc = "input"
  /\ ~(InputVisible(asking_for_details, show_prescription_form)
        /\ event.kind = "input" /\ event.text # <<>>)
  /\ pc' = "idle"
  /\ UNCHANGED <<envVars, asking_for_details, user_details, current_language,
                 show_prescription_form, messages, chatVars, selected_lang_key,
                 event, hfrVars, obsVars, trigger_input>>

\* st.experimental_rerun() after the standard question
InputReturn ==
  /\ pc = "input_ret"
  /\ Rerun
  /\ UNCHANGED <<envVars, asking_for_details, user_details, current_language,
                 show_prescription_form, messages, chatVars, selected_lang_key,
                 obsVars, trigger_input>>

sessionVars == <<envVars, asking_for_details, user_details, current_language,
                 show_prescription_form, chatVars, selected_lang_key, event,
                 trigger_input>>

\* handle_final_response: the chat exists, send_message_stream is called
HFRSend ==
  /\ pc = "hfr_send"
  /\ ChatInitialized(gemini_chat)
  /\ n_calls' = n_calls + 1
  /\ sent_prompt' = final_prompt
  /\ \E send_raises \in BOOLEAN :
       IF send_raises
         THEN /\ full_response' = StreamError(full_response)
              /\ outcome' = "raised"
              /\ pc' = "hfr_log"
         ELSE /\ pc' = "hfr_stream"
              /\ UNCHANGED <<full_response, outcome>>
  /\ UNCHANGED <<sessionVars, messages, final_prompt, hfr_ret, n_chunks, received>>

\* handle_final_response: no chat in the session
HFRNotInitialized ==
  /\ pc = "hfr_send"
  /\ ~ChatInitialized(gemini_chat)
  /\ full_response' = NotInitializedText
  /\ outcome' = "uninitialized"
  /\ pc' = "hfr_log"
  /\ UNCHANGED <<sessionVars, messages, final_prompt, hfr_ret, n_chunks,
                 n_calls, sent_prompt, received>>

\* for chunk in response_stream: one chunk arrives
HFRChunk ==
  /\ pc = "hfr_stream"
  /\ n_chunks < MaxChunks
  /\ \E text \in ChunkTexts :
       /\ full_response' = IF text # <<>> THEN full_response \o text ELSE full_response
       /\ received' = received \o text
  /\ n_chunks' = n_chunks + 1
  /\ UNCHANGED <<sessionVars, messages, final_prompt, hfr_ret, n_calls,
                 sent_prompt, outcome, pc>>

\* the stream ends normally
HFRStreamEnd ==
  /\ pc = "hfr_stream"
  /\ outcome' = "ok"
  /\ pc' = "hfr_log"
  /\ UNCHANGED <<sessionVars, messages, hfrVars, n_calls, sent_prompt, received>>

\* the stream raises: except Exception as e
HFRStreamRaise ==
  /\ pc = "hfr_stream"
  /\ full_response' = StreamError(full_response)
  /\ outcome' = "raised"
  /\ pc' = "hfr_log"
  /\ UNCHANGED <<sessionVars, messages, final_prompt, hfr_ret, n_chunks,
                 n_calls, sent_prompt, received>>

\* Log assistant response to history, return to the caller
HFRLog ==
  /\ pc = "hfr_log"
  /\ messages' = Append(messages, Msg("assistant", full_response))
  /\ pc' = hfr_ret
  /\ UNCHANGED <<sessionVars, hfrVars, obsVars>>

Next ==
  \/ SelectLanguage
  \/ ClickMedicineInfo
  \/ ClickClear
  \/ SubmitMedicineForm
  \/ SubmitContextForm
  \/ SubmitInput
  \/ LazyInit
  \/ Sidebar
  \/ MedFormSubmit
  \/ MedFormSkip
  \/ MedReturn
  \/ CtxFormSubmit
  \/ CtxFormSkip
  \/ CtxReturn
  \/ InputTrigger
  \/ InputQuestion
  \/ InputNone
  \/ InputReturn
  \/ HFRSend
  \/ HFRNotInitialized
  \/ HFRChunk
  \/ HFRStreamEnd
  \/ HFRStreamRaise
  \/ HFRLog

Spec == Init /\ [][Next]_vars


\* ================================================================ claims
Last(msgs) == msgs[Len(msgs)]

IsPrefix(a, b) == Len(a) <= Len(b) /\ SubSeq(b, 1, Len(a)) = a

ReturnPoints == {"med_ret", "ctx_ret", "input_ret"}

\* the input texts that hold a trigger keyword when case is ignored
\* ("a Cold" holds "cold", "Requesting info pain" holds "pain")
TriggerTexts == { <<"a"," ","C","o","l","d">>,
                  RequestingInfo \o <<" ","p","a","i","n">> }

\* the input texts that hold no trigger keyword ("hi")
PlainTexts == { <<"h","i">> }

\* the script reaches the main input with a text the user entered
InputArrives ==
  /\ pc = "input"
  /\ event.kind = "input"
  /\ ~asking_for_details
  /\ ~show_prescription_form

\* C1: a reset (the Clear Chat History callback) always leaves one message,
\* the fixed welcome text, both form flags false and user_details empty,
\* whatever happens while the client and the chat are obtained.
C1_ResetAlwaysClears ==
  [][(pc = "idle" /\ event'.kind = "clear") =>
       /\ messages' = <<Msg("assistant", WelcomeText)>>
       /\ ~asking_for_details'
       /\ ~show_prescription_form'
       /\ user_details' = EmptyDetails]_vars

\* C2: an accepted input that holds a trigger keyword (case ignored) sets
\* asking_for_details, appends the input as user message and the fixed
\* "Context Required" assistant message, and calls no model in that step.
C2_TriggerOpensContextForm ==
  [][(InputArrives /\ event.text \in TriggerTexts) =>
       /\ asking_for_details'
       /\ messages' = messages \o <<Msg("user", event.text),
                                    Msg("assistant", ContextRequiredText)>>
       /\ n_calls' = n_calls
       /\ sent_prompt' = sent_prompt
       /\ pc' = "top"]_vars

C2_Witness ==
  /\ pc = "top"
  /\ asking_for_details
  /\ event = NoEvent
  /\ n_calls = 0
  /\ Len(messages) >= 3
  /\ messages[Len(messages) - 1] = Msg("user", <<"a"," ","C","o","l","d">>)
  /\ Last(messages) = Msg("assistant", ContextRequiredText)

\* what each step of the standard question flow does
C3_QuestionStep ==
  /\ (InputArrives /\ event.text \in PlainTexts) =>
       /\ pc' = "hfr_send"
       /\ hfr_ret' = "input_ret"
       /\ final_prompt' = event.text \o <<"\n\n(Respond in ",
                                          LANGUAGE_MAP[selected_lang_key],
                                          " language)">>
       /\ messages' = Append(messages, Msg("user", event.text))
  /\ (hfr_ret = "input_ret" /\ pc \in {"hfr_send", "hfr_stream"}) =>
       /\ messages' = messages
       /\ n_calls' > n_calls => sent_prompt' = final_prompt
  /\ (hfr_ret = "input_ret" /\ pc = "hfr_log") =>
       /\ messages' = Append(messages, Msg("assistant", full_response))
       /\ pc' = "input_ret"
  /\ (pc = "input_ret") => messages' = messages
  /\ (hfr_ret = "input_ret") =>
       /\ ~asking_for_details /\ ~asking_for_details'
       /\ ~show_prescription_form /\ ~show_prescription_form'

\* C3: an accepted input without trigger keyword goes to
\* handle_final_response with the general language directive of the selected
\* language; exactly one user message, then exactly one assistant message,
\* are appended, and both form flags stay false.
C3_QuestionAnswered == [][C3_QuestionStep]_vars

C3_Witness ==
  /\ pc = "input_ret"
  /\ outcome = "ok"
  /\ n_calls = 1
  /\ sent_prompt = <<"h","i">> \o <<"\n\n(Respond in ", "Kannada", " language)">>
  /\ messages[Len(messages) - 1] = Msg("user", <<"h","i">>)
  /\ Last(messages) = Msg("assistant", <<"P","a","r","a">>)

\* C4 as stated: a context-form submission handled while asking_for_details
\* is true clears the flag and makes exactly one model call, also when no
\* chat session exists.
C4_AlwaysOneCall ==
  (pc = "ctx_ret") => (~asking_for_details /\ n_calls = 1)

\* C4 amended: a context-form submission handled while asking_for_details is
\* true clears the flag; it makes exactly one model call, with the
\* context-augmented prompt, when a chat session exists, and no model call
\* when none exists (the "chat not initialized" message is recorded instead).
C4_OneCallIfChat ==
  (pc = "ctx_ret") =>
    /\ ~asking_for_details
    /\ user_details = [gender |-> GENDER_OPTIONS[event.gender],
                       age |-> AGE_RANGES[event.age],
                       weight |-> event.weight]
    /\ IF gemini_chat
         THEN /\ n_calls = 1
              /\ sent_prompt = final_prompt
              /\ StartsWith(sent_prompt, <<"O", "riginal request: ">>)
         ELSE /\ n_calls = 0
              /\ sent_prompt = <<>>
              /\ Last(messages) = Msg("assistant", NotInitializedText)

C4_Witness ==
  /\ pc = "ctx_ret"
  /\ gemini_chat
  /\ n_calls = 1
  /\ event.gender = 3
  /\ event.age = 5
  /\ event.weight = 300
  /\ outcome = "ok"

\* C5: when the stream fails after it delivered text, the assistant message
\* appended holds that partial text together with an error explanation.
C5_PartialTextKept ==
  (pc \in ReturnPoints /\ outcome = "raised" /\ received # <<>>) =>
    /\ Last(messages).role = "assistant"
    /\ Contains(Last(messages).content, received)
    /\ Len(Last(messages).content) > Len(received)

\* every user message of the history has an assistant message right after it
WellPaired(msgs) ==
  \A i \in 1..Len(msgs) :
    msgs[i].role = "user" => (i < Len(msgs) /\ msgs[i + 1].role = "assistant")

\* the order of the history around a model call, step by step
C6_Step ==
  /\ (pc \in {"hfr_send", "hfr_stream"}) =>
       /\ Last(messages).role = "user"
       /\ messages' = messages
  /\ (n_calls' > n_calls) =>
       /\ Last(messages).role = "user"
       /\ WellPaired(SubSeq(messages, 1, Len(messages) - 1))
  /\ (pc = "hfr_log") =>
       /\ Last(messages).role = "user"
       /\ messages' = Append(messages, Msg("assistant", full_response))
       /\ pc' \in ReturnPoints
  /\ (pc \notin {"hfr_send", "hfr_stream", "hfr_log"}) => WellPaired(messages)
  /\ (pc' \notin {"hfr_send", "hfr_stream", "hfr_log"}) => WellPaired(messages')

\* C6: handle_final_response appends the user message before the model is
\* called and exactly one assistant message afterwards, on every path; when
\* an operation is complete no user message lacks its assistant message.
C6_UserThenAssistant == [][C6_Step]_vars

C6_Witness ==
  /\ pc = "idle"
  /\ outcome = "raised"
  /\ Len(messages) = 5
  /\ messages[2].role = "user"
  /\ messages[3] = Msg("assistant", <<"P","a","r","a">>)
  /\ messages[4].role = "user"
  /\ messages[5].content = StreamError(<<>>)

\* C7: apart from the Clear Chat History reset, no step shortens or replaces
\* the history: every recorded message stays at its position.
C7_HistoryOnlyGrows ==
  [][~(pc = "idle" /\ event'.kind = "clear") => IsPrefix(messages, messages')]_vars

\* what each step of a medicine form submission does
C8_Step ==
  /\ (pc = "medform" /\ show_prescription_form /\ event.kind = "med"
        /\ event.text # <<>>) =>
       /\ pc' = "hfr_send"
       /\ hfr_ret' = "med_ret"
       /\ final_prompt' =
            MedPrompt(event.text)
              \o <<"\n\nPlease provide this information in *",
                   LANGUAGE_MAP[selected_lang_key], "* language.">>
       /\ messages' = Append(messages,
            Msg("user", RequestingInfo \o <<" for medicine: ">> \o MedPrompt(event.text)))
  /\ (hfr_ret = "med_ret" /\ pc \in {"hfr_send", "hfr_stream"}) =>
       /\ messages' = messages
       /\ n_calls' <= 1
       /\ n_calls' > n_calls => sent_prompt' = final_prompt
  /\ (hfr_ret = "med_ret" /\ pc = "hfr_log") =>
       /\ messages' = Append(messages, Msg("assistant", full_response))
       /\ pc' = "med_ret"
  /\ (pc = "med_ret") =>
       /\ ~show_prescription_form'
       /\ messages' = messages
       /\ event' = NoEvent
       /\ pc' = "top"
  /\ (event.kind = "med" /\ event.text = <<>> /\ pc \in {"medform", "ctxform", "input"}) =>
       /\ messages' = messages
       /\ show_prescription_form' = show_prescription_form
       /\ pc' \in {"ctxform", "input", "idle"}

\* C8: a medicine form submitted with a name while show_prescription_form is
\* true calls handle_final_response once with the medicine directive of the
\* selected language and then closes the form; a submission without a name
\* appends nothing and leaves the form open.
C8_MedicineForm == [][C8_Step]_vars

C8_Witness ==
  /\ pc = "top"
  /\ event = NoEvent
  /\ ~show_prescription_form
  /\ outcome = "ok"
  /\ n_calls = 1
  /\ sent_prompt = MedPrompt(<<"D","o","l","o">>)
                     \o <<"\n\nPlease provide this information in *",
                          "Kannada", "* language.">>
  /\ StartsWith(messages[Len(messages) - 1].content, RequestingInfo)

\* C9: the context form composes a prompt whose "Original request" is
\* exactly the input that opened the form, with the submitted gender, age
\* range and weight, whatever that text is.
C9_EmbedsTriggerInput ==
  [][(pc = "ctxform" /\ asking_for_details /\ event.kind = "ctx") =>
       final_prompt' =
         <<"O", "riginal request: ">> \o trigger_input
           \o <<"\nUser Details - Gender: ">> \o GENDER_OPTIONS[event.gender]
           \o <<", Age: ">> \o AGE_RANGES[event.age]
           \o <<", Weight: ">> \o IntToStr(event.weight)
           \o <<"\nProvide general, educational health information based on this context.">>
           \o <<"\n\n(Respond in ", current_language, " language)">>]_vars

\* the steps that take or evaluate free-text input
C10_Step ==
  /\ (pc = "idle" /\ event'.kind = "input") =>
       (~asking_for_details /\ ~show_prescription_form)
  /\ (pc = "input" /\ pc' # "idle") =>
       (~asking_for_details /\ ~show_prescription_form)
  /\ (hfr_ret' = "input_ret") =>
       (~asking_for_details /\ ~show_prescription_form)
  /\ (trigger_input' # trigger_input) =>
       (~asking_for_details /\ ~show_prescription_form)

\* C10: free-text input is offered and evaluated only while both form flags
\* are false; while a form is pending no trigger check and no direct
\* question happens.
C10_InputOnlyWhenFormsClosed == [][C10_Step]_vars

C10_Witness ==
  /\ pc = "idle"
  /\ asking_for_details
  /\ show_prescription_form
  /\ Len(messages) >= 3

====
